---- MODULE Spec2Model ----
(***************************************************************************)
(* Scan storage of the QR scanner application.                             *)
(*                                                                         *)
(* Three implementations of the storage contract are modelled:             *)
(*   - WebStorage    (src/lib/database.ts), memory + one localStorage blob *)
(*   - MobileStorage (src/lib/database.ts), one SQLite table               *)
(*   - the module-level store of src/app/scans+api.ts on Platform 'web'    *)
(* A process runs one of them, fixed when it starts.  Each contract call   *)
(* is one action; the environment chooses the clock value and which        *)
(* underlying I/O call of the handler (if any) fails.  To compare the two  *)
(* storages of database.ts call by call, SpecPair runs both, driven by the *)
(* same calls with the same arguments.                                     *)
(***************************************************************************)
EXTENDS Integers, Sequences, FiniteSets, TLC

VARIABLES
    platform,     \* which storage this process runs (DatabaseManager constructor)
    scans,        \* WebStorage.scans
    nextId,       \* WebStorage.nextId
    kvBlob,       \* localStorage['qr_scanner_data']
    db,           \* MobileStorage.db is non-null
    tableExists,  \* the scans table exists in qr_scanner.db
    rows,         \* rows of the scans table, in rowid order
    seqno,        \* sqlite_sequence entry of the table (AUTOINCREMENT)
    webScans,     \* scans+api.ts: webScans
    apiNextId,    \* scans+api.ts: nextId
    apiBlob,      \* localStorage['qr_scans']
    call,         \* the contract call made last, with its arguments
    retWeb,       \* what WebStorage answered to it
    retMobile,    \* what MobileStorage answered to it
    retApi,       \* what scans+api.ts answered to it
    issued,       \* per backend, the highest id an add returned on this instance
    webInited,    \* the last WebStorage.init of this instance loaded without error
    used,         \* add or deleteScan has been called on this instance
    scenario,     \* how far the calls so far follow the contract's scenario
    initialized,  \* ApiService.initialized
    response,     \* what fetch gave the last ApiService call
    retRemote,    \* what ApiService answered to it
    pc,           \* per handler of the screens, the await it is suspended at
    inFlight,     \* storage calls started and not yet completed
    displayed,    \* history.tsx: scans (state of the screen)
    alert,        \* title of the Alert shown last
    isScanning,   \* part_002: isScanning as last set (useState)
    rendered,     \* isScanning as of the render the camera and the handler use
    timers,       \* pending setTimeout(() => setIsScanning(true), 3000)
    scanTasks     \* running calls of handleBarCodeScanned, oldest first

vars == <<platform, scans, nextId, kvBlob, db, tableExists, rows, seqno, webScans,
          apiNextId, apiBlob, call, retWeb, retMobile, retApi, issued,
          webInited, used, scenario, initialized, response, retRemote,
          pc, inFlight, displayed, alert, isScanning, rendered, timers,
          scanTasks>>

webVars    == <<scans, nextId, kvBlob>>
mobileVars == <<db, tableExists, rows, seqno>>
apiVars    == <<webScans, apiNextId, apiBlob>>
remoteVars == <<initialized, response, retRemote>>
screenVars == <<pc, inFlight, displayed, alert>>
scannerVars == <<isScanning, rendered, timers, scanTasks>>

(***************************************************************************)
(* Bounds and input domains                                                *)
(***************************************************************************)
MaxAdds == 2

NULL == <<>>
Some(x) == <<x>>

Example == [qr_data |-> "https://example.com", latitude |-> Some(40),
            longitude |-> Some(-3), altitude |-> NULL, accuracy |-> Some(5),
            timestamp |-> 100]
NoLocation == [qr_data |-> "WIFI:S:net", latitude |-> NULL, longitude |-> NULL,
               altitude |-> NULL, accuracy |-> NULL, timestamp |-> 200]
Later == [Example EXCEPT !.timestamp = 200]

\* Omit<ScanRecord, 'id' | 'created_at'>: the inputs add is called with.
ScanData == {Example, NoLocation, Later}

Without(scanData, k) == [f \in DOMAIN scanData \ {k} |-> scanData[f]]

\* Inputs that lack a required property.
IncompleteScanData == {Without(Example, "qr_data"), Without(NoLocation, "timestamp")}

\* Instants the system clock may show when a record is created.
Clock == {1}
Ids == 1..MaxAdds

\* Which I/O call of a handler fails: 0 for none, k for the k-th.
IoFailures == 0..2

\* What the endpoint may answer: the statuses of success, of success without
\* content, of "not found" and of a server error; records and lists of them.
Statuses == {200, 201, 204, 404, 500}

(***************************************************************************)
(* Results of a call                                                       *)
(***************************************************************************)
NoCall == [op |-> "none"]
Void == [kind |-> "void"]
Null == [kind |-> "null"]
Throw(m) == [kind |-> "throw", msg |-> m]
RetId(n) == [kind |-> "id", id |-> n]
RetBool(b) == [kind |-> "bool", ok |-> b]
RetRecord(r) == [kind |-> "record", rec |-> r]
RetList(s) == [kind |-> "list", list |-> s]

NotInitialized == Throw("Base de datos no inicializada")
IoError == Throw("io")

(***************************************************************************)
(* Helpers shared by the backends                                          *)
(***************************************************************************)
\* Variant: the id is taken for a position, as in scans.splice(id - 1, 1).
FilterByPosition(s, id) ==
    [i \in 1..(IF id <= Len(s) THEN Len(s) - 1 ELSE Len(s)) |->
        IF i < id THEN s[i] ELSE s[i + 1]]

\* scans.filter(scan => scan.id !== id); DELETE FROM scans WHERE id = ?
Filter(s, id) == SelectSeq(s, LAMBDA scan : scan.id # id)

HasId(s, id) == \E i \in 1..Len(s) : s[i].id = id

\* Array.prototype.find(scan => scan.id === id) || null
Find(s, id) ==
    IF HasId(s, id)
    THEN RetRecord(s[CHOOSE i \in 1..Len(s) :
                        /\ s[i].id = id
                        /\ \A j \in 1..(i - 1) : s[j].id # id])
    ELSE Null

\* (a, b) => b.timestamp - a.timestamp
CompareScans(a, b) == b.timestamp - a.timestamp

\* Array.prototype.sort is stable: an element goes after every element that
\* does not compare greater than it.
InsertSorted(sorted, x) ==
    LET k == Cardinality({i \in 1..Len(sorted) : CompareScans(sorted[i], x) <= 0})
    IN  SubSeq(sorted, 1, k) \o <<x>> \o SubSeq(sorted, k + 1, Len(sorted))

RECURSIVE SortFrom(_, _)
SortFrom(sorted, rest) ==
    IF rest = <<>> THEN sorted
    ELSE SortFrom(InsertSorted(sorted, Head(rest)), Tail(rest))

\* [...scans].sort((a, b) => b.timestamp - a.timestamp)
SortedCopy(s) == SortFrom(<<>>, s)

\* new Date().toISOString()
ToISOString(now) ==
    IF now = 1 THEN "2026-01-01T10:00:00.000Z" ELSE "2026-01-02T11:30:00.000Z"

\* SQLite CURRENT_TIMESTAMP
CurrentTimestamp(now) ==
    IF now = 1 THEN "2026-01-01 10:00:00" ELSE "2026-01-02 11:30:00"

\* Variant: latitude and longitude bound to each other's place.
NewScanSwapped(scanData, id, createdAt) ==
    [qr_data |-> scanData.qr_data, latitude |-> scanData.longitude,
     longitude |-> scanData.latitude, altitude |-> scanData.altitude,
     accuracy |-> scanData.accuracy, timestamp |-> scanData.timestamp,
     id |-> id, created_at |-> createdAt]

\* { ...scanData, id, created_at }: the properties the input has, then id
\* and created_at, which override properties of the same name.
NewScan(scanData, id, createdAt) ==
    [k \in DOMAIN scanData \cup {"id", "created_at"} |->
        CASE k = "id" -> id
          [] k = "created_at" -> createdAt
          [] OTHER -> scanData[k]]

\* A statement parameter: a property the input lacks is bound as NULL.
Bind(scanData, k) == IF k \in DOMAIN scanData THEN scanData[k] ELSE NULL

\* The row of INSERT INTO scans (qr_data, latitude, longitude, altitude,
\* accuracy, timestamp) VALUES (?, ?, ?, ?, ?, ?)
InsertedRow(scanData, rowid, createdAt) ==
    [id |-> rowid, qr_data |-> Bind(scanData, "qr_data"),
     latitude |-> Bind(scanData, "latitude"),
     longitude |-> Bind(scanData, "longitude"),
     altitude |-> Bind(scanData, "altitude"),
     accuracy |-> Bind(scanData, "accuracy"),
     timestamp |-> Bind(scanData, "timestamp"), created_at |-> createdAt]

\* qr_data TEXT NOT NULL, timestamp INTEGER NOT NULL
NotNullViolated(scanData) ==
    \/ "qr_data" \notin DOMAIN scanData
    \/ "timestamp" \notin DOMAIN scanData

\* localStorage.getItem of a key never written returns null.
NoBlob == [json |-> FALSE]

JSONStringify(s, n) == [json |-> TRUE, scans |-> s, nextId |-> n]

\* JSON.parse(stored), then data.scans || [] and data.nextId || 1
ParsedScans(stored) == stored.scans
ParsedNextId(stored) == IF stored.nextId = 0 THEN 1 ELSE stored.nextId

(***************************************************************************)
(* WebStorage (src/lib/database.ts).  Each operator gives the fields after *)
(* the call and the value the call resolves to.                            *)
(***************************************************************************)
WebResult(s, n, b, r) == [scans |-> s, nextId |-> n, kvBlob |-> b, ret |-> r]

\* save(): setItem may throw (quota); the exception is caught and logged.
WebSave(s, n, io) ==
    IF io = 1 THEN kvBlob ELSE JSONStringify(s, n)

\* init(): getItem may throw; the catch block falls back to the defaults.
WebInit(io) ==
    IF io = 1 THEN WebResult(<<>>, 1, kvBlob, Void)
    ELSE IF kvBlob.json
         THEN WebResult(ParsedScans(kvBlob), ParsedNextId(kvBlob), kvBlob, Void)
         ELSE WebResult(scans, nextId, kvBlob, Void)

\* Variant: return this.scans.length ? sorted : null
WebGetScansOrNull ==
    WebResult(scans, nextId, kvBlob,
              IF scans = <<>> THEN Null ELSE RetList(SortedCopy(scans)))

\* Variant: return this.scans.sort(...), which orders the stored array itself
WebGetScansInPlace ==
    WebResult(SortedCopy(scans), nextId, kvBlob, RetList(SortedCopy(scans)))

WebGetScans == WebResult(scans, nextId, kvBlob, RetList(SortedCopy(scans)))

\* Variant: id: ++this.nextId
WebAddScanPreIncrement(scanData, now, io) ==
    LET newScan == NewScan(scanData, nextId + 1, ToISOString(now))
        pushed == Append(scans, newScan)
    IN  WebResult(pushed, nextId + 1, WebSave(pushed, nextId + 1, io),
                  RetId(newScan.id))

WebAddScan(scanData, now, io) ==
    LET newScan == NewScan(scanData, nextId, ToISOString(now))
        pushed == Append(scans, newScan)
    IN  WebResult(pushed, nextId + 1, WebSave(pushed, nextId + 1, io),
                  RetId(newScan.id))

\* Variant: the counter is recomputed from the records that remain.
WebDeleteScanRecycling(id, io) ==
    LET kept == Filter(scans, id)
        deleted == Len(kept) < Len(scans)
        top == IF kept = <<>> THEN 0 ELSE kept[Len(kept)].id
    IN  WebResult(kept, top + 1,
                  IF deleted THEN WebSave(kept, top + 1, io) ELSE kvBlob,
                  RetBool(deleted))

\* Variant: length <= initialLength instead of length < initialLength.
WebDeleteScanLoose(id, io) ==
    LET initialLength == Len(scans)
        kept == Filter(scans, id)
        deleted == Len(kept) <= initialLength
    IN  WebResult(kept, nextId,
                  IF deleted THEN WebSave(kept, nextId, io) ELSE kvBlob,
                  RetBool(deleted))

WebDeleteScan(id, io) ==
    LET initialLength == Len(scans)
        kept == Filter(scans, id)
        deleted == Len(kept) < initialLength
    IN  WebResult(kept, nextId,
                  IF deleted THEN WebSave(kept, nextId, io) ELSE kvBlob,
                  RetBool(deleted))

WebGetScanById(id) == WebResult(scans, nextId, kvBlob, Find(scans, id))

(***************************************************************************)
(* MobileStorage (src/lib/database.ts)                                     *)
(***************************************************************************)
MobileResult(d, t, r, q, ret) ==
    [db |-> d, tableExists |-> t, rows |-> r, seqno |-> q, ret |-> ret]

MobileUnchanged(ret) == MobileResult(db, tableExists, rows, seqno, ret)

NoSuchTable == Throw("no such table: scans")
ConstraintFailed == Throw("NOT NULL constraint failed")

\* init(): openDatabaseSync is I/O call 1, CREATE TABLE IF NOT EXISTS call 2.
MobileInit(io) ==
    IF db THEN MobileUnchanged(Void)
    ELSE IF io = 1 THEN MobileUnchanged(IoError)
    ELSE IF io = 2 THEN MobileResult(TRUE, tableExists, rows, seqno, IoError)
    ELSE MobileResult(TRUE, TRUE, rows, seqno, Void)

\* The two halves of init() when no database is open: openDatabaseSync,
\* which runs before init() first suspends, and the awaited execAsync.
MobileOpen(io) ==
    IF io = 1 THEN MobileUnchanged(IoError)
    ELSE MobileResult(TRUE, tableExists, rows, seqno, Void)

MobileExec(io) ==
    IF io = 2 THEN MobileUnchanged(IoError)
    ELSE MobileResult(db, TRUE, rows, seqno, Void)

\* A statement on the scans table: the error it raises, if any.
StatementError(io) ==
    IF ~db THEN NotInitialized
    ELSE IF io = 1 THEN IoError
    ELSE IF ~tableExists THEN NoSuchTable
    ELSE Void

\* SELECT * FROM scans ORDER BY timestamp DESC: SQL fixes the order of rows
\* with different timestamps only; every order of equal ones is a result.
OrderByTimestampDesc(r) ==
    LET n == Len(r)
        perms == {p \in [1..n -> 1..n] : \A i, j \in 1..n : i # j => p[i] # p[j]}
    IN  { [i \in 1..n |-> r[p[i]]] : p \in
            {q \in perms : \A i \in 1..(n - 1) :
                               r[q[i]].timestamp >= r[q[i + 1]].timestamp} }

\* getScans(): the set of values the call may resolve to.
MobileGetScans(io) ==
    IF StatementError(io) # Void THEN {StatementError(io)}
    ELSE {RetList(o) : o \in OrderByTimestampDesc(rows)}

\* addScan(): INSERT; AUTOINCREMENT takes one more than the largest rowid
\* the table ever held.
MobileAddScan(scanData, now, io) ==
    IF StatementError(io) # Void THEN MobileUnchanged(StatementError(io))
    ELSE IF NotNullViolated(scanData) THEN MobileUnchanged(ConstraintFailed)
    ELSE LET lastInsertRowId == seqno + 1
             row == InsertedRow(scanData, lastInsertRowId, CurrentTimestamp(now))
         IN  MobileResult(db, tableExists, Append(rows, row), lastInsertRowId,
                          RetId(lastInsertRowId))

\* deleteScan(): DELETE FROM scans WHERE id = ?; result.changes > 0
MobileDeleteScan(id, io) ==
    IF StatementError(io) # Void THEN MobileUnchanged(StatementError(io))
    ELSE LET changes == Len(rows) - Len(Filter(rows, id))
         IN  MobileResult(db, tableExists, Filter(rows, id), seqno,
                          RetBool(changes > 0))

\* getScanById(): SELECT * FROM scans WHERE id = ?; result || null
MobileGetScanById(id, io) ==
    IF StatementError(io) # Void THEN MobileUnchanged(StatementError(io))
    ELSE MobileUnchanged(Find(rows, id))

(***************************************************************************)
(* src/app/scans+api.ts with Platform.OS === 'web'.  Every operation first *)
(* awaits initDatabase(); neither getItem nor setItem is guarded there, so *)
(* a failing one rejects the call.                                         *)
(***************************************************************************)
ApiResult(s, n, b, r) == [webScans |-> s, apiNextId |-> n, apiBlob |-> b, ret |-> r]

\* initDatabase(): getItem is I/O call 1.
ApiInitDatabase(io) ==
    IF io = 1 THEN ApiResult(webScans, apiNextId, apiBlob, IoError)
    ELSE IF apiBlob.json
         THEN ApiResult(ParsedScans(apiBlob), ParsedNextId(apiBlob), apiBlob, Void)
         ELSE ApiResult(webScans, apiNextId, apiBlob, Void)

ApiGetScans(io) ==
    LET init == ApiInitDatabase(io)
    IN  IF init.ret # Void THEN init
        ELSE ApiResult(init.webScans, init.apiNextId, init.apiBlob,
                       RetList(SortedCopy(init.webScans)))

\* addScan(): setItem (in saveToLocalStorage) is I/O call 2 and comes after
\* the push and the increment.
ApiAddScan(scanData, now, io) ==
    LET init == ApiInitDatabase(io)
        newScan == NewScan(scanData, init.apiNextId, ToISOString(now))
        pushed == Append(init.webScans, newScan)
    IN  IF init.ret # Void THEN init
        ELSE IF io = 2
             THEN ApiResult(pushed, init.apiNextId + 1, init.apiBlob, IoError)
             ELSE ApiResult(pushed, init.apiNextId + 1,
                            JSONStringify(pushed, init.apiNextId + 1),
                            RetId(newScan.id))

ApiDeleteScan(id, io) ==
    LET init == ApiInitDatabase(io)
        initialLength == Len(init.webScans)
        kept == Filter(init.webScans, id)
        deleted == Len(kept) < initialLength
    IN  IF init.ret # Void THEN init
        ELSE IF ~deleted
             THEN ApiResult(kept, init.apiNextId, init.apiBlob, RetBool(FALSE))
             ELSE IF io = 2
                  THEN ApiResult(kept, init.apiNextId, init.apiBlob, IoError)
                  ELSE ApiResult(kept, init.apiNextId,
                                 JSONStringify(kept, init.apiNextId), RetBool(TRUE))

ApiGetScanById(id, io) ==
    LET init == ApiInitDatabase(io)
    IN  IF init.ret # Void THEN init
        ELSE ApiResult(init.webScans, init.apiNextId, init.apiBlob,
                       Find(init.webScans, id))

(***************************************************************************)
(* ApiService: the storage behind a remote endpoint                        *)
(***************************************************************************)
\* fetch rejected: no response arrived.
TransportError == [kind |-> "error"]
Response(status, body) == [kind |-> "response", status |-> status, body |-> body]

\* A response without content, and one whose content is the JSON text of v.
NoBody == [json |-> FALSE]
Body(v) == [json |-> TRUE, value |-> v]

\* response.ok
Ok(resp) == resp.status \in 200..299

NetworkError == Throw("Network request failed")
HttpError == Throw("HTTP error!")
SyntaxError == Throw("JSON Parse error")

\* Variant: a status that is not ok yields an empty list.
RemoteGetScansSwallowing(resp) ==
    IF resp.kind = "error" THEN NetworkError
    ELSE IF ~Ok(resp) THEN RetList(<<>>)
    ELSE IF ~resp.body.json THEN SyntaxError
    ELSE RetList(resp.body.value)

RemoteGetScans(resp) ==
    IF resp.kind = "error" THEN NetworkError
    ELSE IF ~Ok(resp) THEN HttpError
    ELSE IF ~resp.body.json THEN SyntaxError
    ELSE RetList(resp.body.value)

\* The body of the POST request.
PostBody(scanData) ==
    [k \in {"qr_data", "latitude", "longitude", "altitude", "accuracy", "timestamp"}
        |-> scanData[k]]

RemoteAddScan(scanData, resp) ==
    IF resp.kind = "error" THEN NetworkError
    ELSE IF ~Ok(resp) THEN HttpError
    ELSE IF ~resp.body.json THEN SyntaxError
    ELSE RetId(resp.body.value.id)

RemoteDeleteScan(id, resp) ==
    IF resp.kind = "error" THEN NetworkError
    ELSE IF ~Ok(resp)
         THEN IF resp.status = 204 THEN RetBool(TRUE) ELSE HttpError
    ELSE RetBool(TRUE)

RemoteGetScanById(id, resp) ==
    IF resp.kind = "error" THEN NetworkError
    ELSE IF ~Ok(resp)
         THEN IF resp.status = 404 THEN Null ELSE HttpError
    ELSE IF ~resp.body.json THEN SyntaxError
    ELSE RetRecord(resp.body.value)

(***************************************************************************)
(* The state machine                                                       *)
(***************************************************************************)
NoneIssued == [web |-> 0, mobile |-> 0, api |-> 0]

\* fetch has not been called.
NoResponse == [kind |-> "none"]

\* The handlers of the two screens that call the storage.
Handlers == {"initializeApp", "handleBarCodeScanned", "loadScans", "handleDeleteScan"}
Idle == [at |-> "idle"]
AllIdle == [h \in Handlers |-> Idle]
NoAlert == "none"

\* The storages a process on a given platform runs.
Running ==
    CASE platform = "web" -> {"web"}
      [] platform = "mobile" -> {"mobile"}
      [] platform = "api" -> {"api"}
      [] platform = "pair" -> {"web", "mobile"}
      [] OTHER -> {}

Constructed ==
    /\ scans = <<>> /\ nextId = 1 /\ kvBlob = NoBlob
    /\ db = FALSE /\ tableExists = FALSE /\ rows = <<>> /\ seqno = 0
    /\ webScans = <<>> /\ apiNextId = 1 /\ apiBlob = NoBlob
    /\ call = NoCall
    /\ retWeb = Void /\ retMobile = Void /\ retApi = Void
    /\ issued = NoneIssued
    /\ webInited = FALSE
    /\ used = FALSE
    /\ scenario = "off"
    /\ initialized = FALSE /\ response = NoResponse /\ retRemote = Void
    /\ pc = AllIdle /\ inFlight = {} /\ displayed = <<>> /\ alert = NoAlert
    /\ isScanning = TRUE /\ rendered = TRUE /\ timers = 0 /\ scanTasks = <<>>

\* Platform.OS === 'web' ? new WebStorage() : new MobileStorage(), or the
\* module of scans+api.ts
Init ==
    /\ platform \in {"web", "mobile", "api"}
    /\ Constructed

SetWeb(w) ==
    IF "web" \in Running
    THEN /\ scans' = w.scans /\ nextId' = w.nextId /\ kvBlob' = w.kvBlob
         /\ retWeb' = w.ret
    ELSE UNCHANGED <<webVars, retWeb>>

SetMobile(m) ==
    IF "mobile" \in Running
    THEN /\ db' = m.db /\ tableExists' = m.tableExists /\ rows' = m.rows
         /\ seqno' = m.seqno /\ retMobile' = m.ret
    ELSE UNCHANGED <<mobileVars, retMobile>>

SetApi(a) ==
    IF "api" \in Running
    THEN /\ webScans' = a.webScans /\ apiNextId' = a.apiNextId
         /\ apiBlob' = a.apiBlob /\ retApi' = a.ret
    ELSE UNCHANGED <<apiVars, retApi>>

Max(a, b) == IF a >= b THEN a ELSE b

\* Nothing is stored, no id was ever assigned and no database is open.
Pristine ==
    /\ "web" \in Running => (kvBlob = NoBlob /\ scans = <<>> /\ nextId = 1)
    /\ "mobile" \in Running => (~db /\ rows = <<>> /\ seqno = 0)
    /\ "api" \in Running => (apiBlob = NoBlob /\ webScans = <<>> /\ apiNextId = 1)

\* The contract's scenario: on a new, empty backend, initialize, add,
\* listAll, deleteById(1), listAll, none of them with failing I/O.  Any
\* other call leaves the scenario.
FollowScenario ==
    scenario' =
        IF call'.op \in {"none", "restart"} THEN "off"
        ELSE IF call'.io # 0 THEN "off"
        ELSE IF call'.op = "init" /\ Pristine THEN "fresh"
        ELSE IF scenario = "fresh" /\ call'.op = "add" THEN "added"
        ELSE IF scenario = "added" /\ call'.op = "list" THEN "listed"
        ELSE IF scenario = "listed" /\ call'.op = "delete" /\ call'.id = 1
             THEN "deleted"
        ELSE IF scenario = "deleted" /\ call'.op = "list" THEN "relisted"
        ELSE "off"

IssuedAfter(old, ret) == IF ret.kind = "id" THEN Max(old, ret.id) ELSE old

\* database.init() / initDatabase()
InitCall(io) ==
    /\ call' = [op |-> "init", io |-> io]
    /\ SetWeb(WebInit(io))
    /\ SetMobile(MobileInit(io))
    /\ SetApi(ApiInitDatabase(io))
    /\ webInited' = (io # 1)
    /\ FollowScenario
    /\ UNCHANGED <<platform, issued, used, remoteVars>>

Initialize ==
    \E io \in IoFailures : InitCall(io) /\ UNCHANGED <<screenVars, scannerVars>>

\* database.getScans() / getScans()
ListCall(io) ==
    \E listed \in MobileGetScans(io) :
        /\ call' = [op |-> "list", io |-> io]
        /\ SetWeb(WebGetScans)
        /\ SetMobile(MobileUnchanged(listed))
        /\ SetApi(ApiGetScans(io))
        /\ FollowScenario
        /\ UNCHANGED <<platform, issued, webInited, used, remoteVars>>

ListAll ==
    \E io \in IoFailures : ListCall(io) /\ UNCHANGED <<screenVars, scannerVars>>

\* database.addScan(scanData) / addScan(scanData)
AddCall(scanData, now, io) ==
    LET w == WebAddScan(scanData, now, io)
        m == MobileAddScan(scanData, now, io)
        a == ApiAddScan(scanData, now, io)
    IN  /\ "web" \in Running => nextId <= MaxAdds
        /\ "mobile" \in Running => seqno < MaxAdds
        /\ "api" \in Running => a.apiNextId <= MaxAdds + 1
        /\ call' = [op |-> "add", io |-> io, scanData |-> scanData]
        /\ SetWeb(w) /\ SetMobile(m) /\ SetApi(a)
        /\ issued' = [web |-> IssuedAfter(issued.web, retWeb'),
                      mobile |-> IssuedAfter(issued.mobile, retMobile'),
                      api |-> IssuedAfter(issued.api, retApi')]
        /\ used' = TRUE
        /\ FollowScenario
        /\ UNCHANGED <<platform, webInited, remoteVars>>

Add ==
    \E scanData \in ScanData, now \in Clock, io \in IoFailures :
        AddCall(scanData, now, io) /\ UNCHANGED <<screenVars, scannerVars>>

\* addScan called with an input that lacks a required property (the type
\* Omit<ScanRecord, ...> is not checked when the program runs).
AddIncomplete ==
    \E scanData \in IncompleteScanData, now \in Clock, io \in IoFailures :
        AddCall(scanData, now, io) /\ UNCHANGED <<screenVars, scannerVars>>

\* database.getScanById(id) / getScanById(id)
FindById ==
    \E id \in Ids, io \in IoFailures :
        /\ call' = [op |-> "find", io |-> io, id |-> id]
        /\ SetWeb(WebGetScanById(id))
        /\ SetMobile(MobileGetScanById(id, io))
        /\ SetApi(ApiGetScanById(id, io))
        /\ FollowScenario
        /\ UNCHANGED <<platform, issued, webInited, used, remoteVars, screenVars,
                        scannerVars>>

\* database.deleteScan(id) / deleteScan(id)
DeleteCall(id, io) ==
    /\ call' = [op |-> "delete", io |-> io, id |-> id]
    /\ SetWeb(WebDeleteScan(id, io))
    /\ SetMobile(MobileDeleteScan(id, io))
    /\ SetApi(ApiDeleteScan(id, io))
    /\ used' = TRUE
    /\ FollowScenario
    /\ UNCHANGED <<platform, issued, webInited, remoteVars>>

DeleteById ==
    \E id \in Ids, io \in IoFailures : DeleteCall(id, io) /\ UNCHANGED <<screenVars, scannerVars>>

\* The process ends and a new one starts: module state is constructed anew
\* (database.ts:18-19, 104; scans+api.ts:16-20), persisted state stays.
Restart ==
    /\ call' = [op |-> "restart"]
    /\ platform' = platform
    /\ scans' = <<>> /\ nextId' = 1
    /\ db' = FALSE
    /\ webScans' = <<>> /\ apiNextId' = 1
    /\ retWeb' = Void /\ retMobile' = Void /\ retApi' = Void
    /\ issued' = NoneIssued
    /\ webInited' = FALSE
    /\ used' = FALSE
    /\ FollowScenario
    /\ initialized' = FALSE /\ response' = NoResponse /\ retRemote' = Void
    /\ pc' = AllIdle /\ inFlight' = {} /\ displayed' = <<>> /\ alert' = NoAlert
    /\ isScanning' = TRUE /\ rendered' = TRUE /\ timers' = 0 /\ scanTasks' = <<>>
    /\ UNCHANGED <<kvBlob, tableExists, rows, seqno, apiBlob>>

Next ==
    \/ Initialize
    \/ ListAll
    \/ Add
    \/ FindById
    \/ DeleteById
    \/ Restart

Spec == Init /\ [][Next]_vars

\* WebStorage and MobileStorage side by side.
InitPair == platform = "pair" /\ Constructed

SpecPair == InitPair /\ [][Next]_vars

\* One instance used as the contract intends: initialize comes before the
\* first add or deleteScan, and from then on only add and deleteScan are
\* called until the process ends.
InitializeFirst == ~used /\ Initialize

NextAddDelete ==
    \/ InitializeFirst
    \/ Add
    \/ DeleteById
    \/ Restart

SpecAddDelete == Init /\ [][NextAddDelete]_vars

\* Callers that also pass incomplete inputs.
NextUnvalidated ==
    \/ Initialize
    \/ Add
    \/ AddIncomplete
    \/ FindById
    \/ DeleteById
    \/ Restart

SpecUnvalidated == Init /\ [][NextUnvalidated]_vars

(***************************************************************************)
(* A process whose storage is ApiService                                   *)
(***************************************************************************)
ServerRecords ==
    {NewScan(scanData, id, ToISOString(now)) :
        scanData \in ScanData, id \in Ids, now \in Clock}

ServerLists == {<<>>} \cup {<<r>> : r \in ServerRecords}

\* No response arrives, or one does: a 204 carries no content, any other
\* status carries one of the contents or none.
Responses(contents) ==
    {TransportError}
        \cup {Response(status, NoBody) : status \in Statuses}
        \cup {Response(status, Body(v)) : status \in Statuses \ {204}, v \in contents}

InitRemote == platform = "remote" /\ Constructed

RemoteUnchanged ==
    UNCHANGED <<platform, webVars, mobileVars, apiVars, retWeb, retMobile, retApi,
                issued, webInited, used, scenario, screenVars, scannerVars>>

RemoteInit ==
    /\ call' = [op |-> "init"]
    /\ initialized' = TRUE
    /\ retRemote' = Void
    /\ UNCHANGED response
    /\ RemoteUnchanged

RemoteList ==
    \E resp \in Responses(ServerLists) :
        /\ call' = [op |-> "list"]
        /\ response' = resp
        /\ retRemote' = RemoteGetScans(resp)
        /\ UNCHANGED initialized
        /\ RemoteUnchanged

RemoteAdd ==
    \E scanData \in ScanData, resp \in Responses(ServerRecords) :
        /\ call' = [op |-> "add", scanData |-> PostBody(scanData)]
        /\ response' = resp
        /\ retRemote' = RemoteAddScan(scanData, resp)
        /\ UNCHANGED initialized
        /\ RemoteUnchanged

RemoteDelete ==
    \E id \in Ids, resp \in Responses({}) :
        /\ call' = [op |-> "delete", id |-> id]
        /\ response' = resp
        /\ retRemote' = RemoteDeleteScan(id, resp)
        /\ UNCHANGED initialized
        /\ RemoteUnchanged

RemoteFind ==
    \E id \in Ids, resp \in Responses(ServerRecords) :
        /\ call' = [op |-> "find", id |-> id]
        /\ response' = resp
        /\ retRemote' = RemoteGetScanById(id, resp)
        /\ UNCHANGED initialized
        /\ RemoteUnchanged

NextRemote ==
    \/ RemoteInit
    \/ RemoteList
    \/ RemoteAdd
    \/ RemoteDelete
    \/ RemoteFind
    \/ Restart

SpecRemote == InitRemote /\ [][NextRemote]_vars

(***************************************************************************)
(* The screens.  A handler is a task that runs from one await to the next; *)
(* other handlers run while it is suspended.  A call of WebStorage runs to *)
(* its end before the caller suspends; a call of MobileStorage that        *)
(* reaches its statement stays in flight until the statement has run.      *)
(***************************************************************************)
\* What the camera and the location service give handleBarCodeScanned.
ScanResults ==
    { [data |-> "https://example.com",
       location |-> Some([latitude |-> Some(40), longitude |-> Some(-3),
                          altitude |-> Some(0), accuracy |-> Some(5)]),
       timestamp |-> 100],
      [data |-> "WIFI:S:cafe;;", location |-> NULL, timestamp |-> 200] }

\* x || null
OrNull(x) == IF x = NULL \/ x = Some(0) THEN NULL ELSE x

\* scanResult.location?.coords.<k> || null
Coord(scanResult, k) ==
    IF scanResult.location = NULL THEN NULL
    ELSE OrNull(scanResult.location[1][k])

\* saveScanToDatabase: the scanData it passes to addScan
SaveScanData(scanResult) ==
    [qr_data |-> scanResult.data,
     latitude |-> Coord(scanResult, "latitude"),
     longitude |-> Coord(scanResult, "longitude"),
     altitude |-> Coord(scanResult, "altitude"),
     accuracy |-> Coord(scanResult, "accuracy"),
     timestamp |-> scanResult.timestamp]

\* The storage calls a handler awaits, in order.
Program(h) ==
    CASE h = "initializeApp" -> <<"init", "list">>
      [] h = "handleBarCodeScanned" -> <<"add", "list">>
      [] h = "loadScans" -> <<"init", "list">>
      [] h = "handleDeleteScan" -> <<"delete">>

\* After its first call loadScans calls getScans in the continuation that
\* the first call resumes, and so does handleBarCodeScanned; initializeApp
\* awaits the location service in between.
CallsNextAtOnce(h) == h \in {"loadScans", "handleBarCodeScanned"}

\* Suspended before call k, and suspended on call k.
Ready(k, arg) == [at |-> "ready", step |-> k, arg |-> arg]
Awaiting(k, arg) == [at |-> "await", step |-> k, arg |-> arg]

InitScreens == platform \in {"web", "mobile"} /\ Constructed

\* What the storage of this process answered to the call just made.
Answer == IF platform = "web" THEN retWeb' ELSE retMobile'

\* Variant: the scan is taken off the list whatever deleteScan answered.
AfterDeleteOptimistic(prev, id, success) == Filter(prev, id)

\* if (success) setScans(prev => prev.filter(scan => scan.id !== id))
AfterDelete(prev, id, success) == IF success THEN Filter(prev, id) ELSE prev

\* The handler's code from the end of its call k: the catch block, the next
\* call, or its last statements.
Proceed(h, k, arg) ==
    IF Answer.kind = "throw"
    THEN /\ pc' = [pc EXCEPT ![h] = Idle]
         /\ inFlight' = inFlight \ {h}
         /\ alert' = IF h = "initializeApp" THEN alert ELSE "Error"
         /\ UNCHANGED displayed
    ELSE IF k < Len(Program(h))
    THEN /\ IF platform = "mobile" /\ CallsNextAtOnce(h)
            THEN /\ pc' = [pc EXCEPT ![h] = Awaiting(k + 1, arg)]
                 /\ inFlight' = inFlight \cup {h}
            ELSE /\ pc' = [pc EXCEPT ![h] = Ready(k + 1, arg)]
                 /\ inFlight' = inFlight \ {h}
         /\ UNCHANGED <<displayed, alert>>
    ELSE /\ pc' = [pc EXCEPT ![h] = Idle]
         /\ inFlight' = inFlight \ {h}
         /\ displayed' =
                CASE h = "loadScans" -> Answer.list
                  [] h = "handleDeleteScan" -> AfterDelete(displayed, arg, Answer.ok)
                  [] OTHER -> displayed
         /\ alert' =
                CASE h = "handleDeleteScan" /\ Answer.ok -> "Exito"
                  [] h = "handleDeleteScan" /\ ~Answer.ok -> "Error"
                  [] OTHER -> alert

\* Call k of the handler, from its start to its end.
WholeCall(h, k, arg, io) ==
    CASE Program(h)[k] = "init" -> InitCall(io)
      [] Program(h)[k] = "list" -> ListCall(io)
      [] Program(h)[k] = "add" ->
            \E now \in Clock : AddCall(SaveScanData(arg), now, io)
      [] Program(h)[k] = "delete" -> DeleteCall(arg, io)

\* A call of MobileStorage that awaits a statement.
Suspends(h, k) ==
    /\ platform = "mobile"
    /\ IF Program(h)[k] = "init" THEN ~db ELSE db

\* init() up to its await: the database is opened.
OpenCall(io) ==
    /\ call' = [op |-> "open", io |-> io]
    /\ SetMobile(MobileOpen(io))
    /\ FollowScenario
    /\ UNCHANGED <<platform, webVars, retWeb, apiVars, retApi, issued, webInited,
                    used, remoteVars>>

\* init() after its await: CREATE TABLE IF NOT EXISTS has run.
ExecCall(io) ==
    /\ call' = [op |-> "exec", io |-> io]
    /\ SetMobile(MobileExec(io))
    /\ FollowScenario
    /\ UNCHANGED <<platform, webVars, retWeb, apiVars, retApi, issued, webInited,
                    used, remoteVars>>

StorageUnchanged ==
    UNCHANGED <<platform, webVars, mobileVars, apiVars, call, retWeb, retMobile,
                retApi, issued, webInited, used, scenario, remoteVars>>

\* The handler starts its call k.  The call ends at once, or it suspends on
\* its statement and is in flight.
StartCall(h, k, arg) ==
    /\ UNCHANGED scannerVars
    /\ IF ~Suspends(h, k)
       THEN \E io \in {0, 1} : WholeCall(h, k, arg, io) /\ Proceed(h, k, arg)
       ELSE IF Program(h)[k] = "init"
       THEN \E io \in {0, 1} :
               /\ OpenCall(io)
               /\ IF io = 1
                  THEN Proceed(h, k, arg)
                  ELSE /\ pc' = [pc EXCEPT ![h] = Awaiting(k, arg)]
                       /\ inFlight' = inFlight \cup {h}
                       /\ UNCHANGED <<displayed, alert>>
       ELSE /\ pc' = [pc EXCEPT ![h] = Awaiting(k, arg)]
            /\ inFlight' = inFlight \cup {h}
            /\ StorageUnchanged
            /\ UNCHANGED <<displayed, alert>>

\* useEffect when the scanner screen mounts, which is where the process
\* makes its first storage call.
BeginInitializeApp ==
    /\ call.op = "none"
    /\ pc["initializeApp"].at = "idle"
    /\ StartCall("initializeApp", 1, NULL)

\* The camera reports a code while isScanning holds; the handler awaits the
\* location service before it saves.
BeginHandleBarCodeScanned ==
    \E scanResult \in ScanResults :
        /\ call.op # "none"
        /\ pc["handleBarCodeScanned"].at = "idle"
        /\ platform = "web" => nextId <= MaxAdds
        /\ platform = "mobile" => seqno < MaxAdds
        /\ pc' = [pc EXCEPT !["handleBarCodeScanned"] = Ready(1, scanResult)]
        /\ StorageUnchanged
        /\ UNCHANGED <<inFlight, displayed, alert, scannerVars>>

\* useFocusEffect, or onRefresh
BeginLoadScans ==
    /\ call.op # "none"
    /\ pc["loadScans"].at = "idle"
    /\ StartCall("loadScans", 1, NULL)

\* 'Eliminar' is pressed in the Alert of a displayed scan.
BeginHandleDeleteScan ==
    \E i \in 1..Len(displayed) :
        /\ pc["handleDeleteScan"].at = "idle"
        /\ StartCall("handleDeleteScan", 1, displayed[i].id)

\* A handler suspended before a call goes on and starts it.
Issue(h) ==
    /\ pc[h].at = "ready"
    /\ StartCall(h, pc[h].step, pc[h].arg)

\* The statement of a call in flight has run: the call ends and its
\* handler goes on.
Complete(h) ==
    /\ pc[h].at = "await"
    /\ UNCHANGED scannerVars
    /\ IF Program(h)[pc[h].step] = "init"
       THEN \E io \in {0, 2} :
                ExecCall(io) /\ Proceed(h, pc[h].step, pc[h].arg)
       ELSE \E io \in {0, 1} :
                /\ WholeCall(h, pc[h].step, pc[h].arg, io)
                /\ Proceed(h, pc[h].step, pc[h].arg)

IssueAny == \E h \in Handlers : Issue(h)

CompleteAny == \E h \in Handlers : Complete(h)

NextScreens ==
    \/ BeginInitializeApp
    \/ BeginHandleBarCodeScanned
    \/ BeginLoadScans
    \/ BeginHandleDeleteScan
    \/ IssueAny
    \/ CompleteAny

SpecScreens == InitScreens /\ [][NextScreens]_vars

(***************************************************************************)
(* The scanner screen with its isScanning state.  The camera calls the     *)
(* handler of the last render, which sees the isScanning of that render;   *)
(* setIsScanning takes effect for the camera when the screen renders       *)
(* again.  Storage calls run from start to end in one step here.           *)
(***************************************************************************)
ScanTask(at, scanResult) == [at |-> at, arg |-> scanResult]

WithoutTask(i) ==
    SubSeq(scanTasks, 1, i - 1) \o SubSeq(scanTasks, i + 1, Len(scanTasks))

\* Tasks that have not called addScan yet.
PendingSaves == Cardinality({i \in 1..Len(scanTasks) : scanTasks[i].at = "save"})

\* Variant: the catch block does not touch isScanning.
CatchLeavesScanning(current) == current

\* catch (error) { ...; setIsScanning(true) }
CatchSetsScanning(current) == TRUE

\* onBarcodeScanned={isScanning ? handleBarCodeScanned : undefined}, then
\* if (!isScanning) return; setIsScanning(false), up to the await of the
\* location.  With isScanning false in the last render nothing happens.
Detect ==
    \E scanResult \in ScanResults :
        /\ call.op # "none"
        /\ rendered
        /\ platform = "web" => (nextId - 1) + PendingSaves < MaxAdds
        /\ platform = "mobile" => seqno + PendingSaves < MaxAdds
        /\ isScanning' = FALSE
        /\ scanTasks' = Append(scanTasks, ScanTask("save", scanResult))
        /\ StorageUnchanged
        /\ UNCHANGED <<screenVars, rendered, timers>>

\* The catch block of handleBarCodeScanned.
Caught(i) ==
    /\ alert' = "Error"
    /\ isScanning' = CatchSetsScanning(isScanning)
    /\ scanTasks' = WithoutTask(i)
    /\ UNCHANGED timers

\* await saveScanToDatabase(scanResult)
Save(i) ==
    /\ scanTasks[i].at = "save"
    /\ \E now \in Clock, io \in {0, 1} :
            AddCall(SaveScanData(scanTasks[i].arg), now, io)
    /\ IF Answer.kind = "throw"
       THEN Caught(i)
       ELSE /\ scanTasks' = [scanTasks EXCEPT ![i].at = "count"]
            /\ UNCHANGED <<alert, isScanning, timers>>
    /\ UNCHANGED <<pc, inFlight, displayed, rendered>>

\* await database.getScans(), then setTimeout(() => setIsScanning(true), 3000)
Count(i) ==
    /\ scanTasks[i].at = "count"
    /\ \E io \in {0, 1} : ListCall(io)
    /\ IF Answer.kind = "throw"
       THEN Caught(i)
       ELSE /\ timers' = timers + 1
            /\ scanTasks' = WithoutTask(i)
            /\ UNCHANGED <<alert, isScanning>>
    /\ UNCHANGED <<pc, inFlight, displayed, rendered>>

SaveAny == \E i \in 1..Len(scanTasks) : Save(i)

CountAny == \E i \in 1..Len(scanTasks) : Count(i)

\* () => setIsScanning(true), 3 seconds after a scan was saved
TimerFires ==
    /\ timers > 0
    /\ timers' = timers - 1
    /\ isScanning' = TRUE
    /\ StorageUnchanged
    /\ UNCHANGED <<screenVars, rendered, scanTasks>>

\* The screen renders with the current isScanning.
Render ==
    /\ rendered # isScanning
    /\ rendered' = isScanning
    /\ StorageUnchanged
    /\ UNCHANGED <<screenVars, isScanning, timers, scanTasks>>

NextScanner ==
    \/ BeginInitializeApp
    \/ IssueAny
    \/ CompleteAny
    \/ Detect
    \/ SaveAny
    \/ CountAny
    \/ TimerFires
    \/ Render

SpecScanner == InitScreens /\ [][NextScanner]_vars

\* Every awaited storage call settles and every timer fires.
SpecScannerFair ==
    /\ InitScreens /\ [][NextScanner]_vars
    /\ WF_vars(SaveAny) /\ WF_vars(CountAny) /\ WF_vars(TimerFires)

(***************************************************************************)
(* A process that starts over whatever the key holds: nothing, a blob this *)
(* program wrote, or a blob without a usable nextId (data.nextId || 1).    *)
(***************************************************************************)
FoundRecord == NewScan(Example, 1, ToISOString(1))

\* nextId 0 stands for a nextId that is missing or zero.
FoundBlobs ==
    {NoBlob} \cup {JSONStringify(s, n) : s \in {<<>>, <<FoundRecord>>}, n \in {0, 2}}

InitAnyBlob ==
    /\ platform \in {"web", "api"}
    /\ kvBlob \in FoundBlobs /\ apiBlob \in FoundBlobs
    /\ platform = "web" => apiBlob = NoBlob
    /\ platform = "api" => kvBlob = NoBlob
    /\ scans = <<>> /\ nextId = 1
    /\ db = FALSE /\ tableExists = FALSE /\ rows = <<>> /\ seqno = 0
    /\ webScans = <<>> /\ apiNextId = 1
    /\ call = NoCall
    /\ retWeb = Void /\ retMobile = Void /\ retApi = Void
    /\ issued = NoneIssued
    /\ webInited = FALSE
    /\ used = FALSE
    /\ scenario = "off"
    /\ initialized = FALSE /\ response = NoResponse /\ retRemote = Void
    /\ pc = AllIdle /\ inFlight = {} /\ displayed = <<>> /\ alert = NoAlert
    /\ isScanning = TRUE /\ rendered = TRUE /\ timers = 0 /\ scanTasks = <<>>

SpecAnyBlob == InitAnyBlob /\ [][Next]_vars

(***************************************************************************)
(* What a storage holds, as a set and as its callers can see it            *)
(***************************************************************************)
Records(s) == {s[i] : i \in 1..Len(s)}

BlobRecords(b) == IF b.json THEN Records(b.scans) ELSE {}

\* scans+api.ts: the records and the counter an operation works on, i.e.
\* after the initDatabase() every operation starts with.
ApiCurrentScans(ws, b) == IF b.json THEN ParsedScans(b) ELSE ws
ApiCurrentNextId(n, b) == IF b.json THEN ParsedNextId(b) ELSE n

SameFields(rec, scanData) ==
    /\ rec.qr_data = scanData.qr_data
    /\ rec.latitude = scanData.latitude
    /\ rec.longitude = scanData.longitude
    /\ rec.altitude = scanData.altitude
    /\ rec.accuracy = scanData.accuracy
    /\ rec.timestamp = scanData.timestamp

(***************************************************************************)
(* C1: within one instance the ids returned by add are strictly increasing *)
(* and none is returned twice, whatever add and deleteScan calls are       *)
(* interleaved: every id an add returns is greater than every id an add    *)
(* returned before on this instance.                                       *)
(***************************************************************************)
C1_IdsStrictlyIncreasing ==
    [][call'.op = "add" =>
          /\ ("web" \in Running /\ retWeb'.kind = "id") => retWeb'.id > issued.web
          /\ ("mobile" \in Running /\ retMobile'.kind = "id")
                => retMobile'.id > issued.mobile
          /\ ("api" \in Running /\ retApi'.kind = "id") => retApi'.id > issued.api
      ]_vars

\* An add returned id 2 after the record with id 1, then the highest, was
\* deleted.
C1_Witness ==
    /\ platform = "web" /\ call.op = "add"
    /\ retWeb.kind = "id" /\ retWeb.id = 2
    /\ ~HasId(scans, 1) /\ HasId(scans, 2)

(***************************************************************************)
(* C2: when add returns an id or deleteScan returns true on a key-value    *)
(* backend, the persisted blob holds the full in-memory record set and     *)
(* counter, that change included.                                          *)
(***************************************************************************)
Succeeded(ret) == ret.kind = "id" \/ (ret.kind = "bool" /\ ret.ok)

C2_DurableBeforeSuccess ==
    call.op \in {"add", "delete"} =>
        /\ ("web" \in Running /\ Succeeded(retWeb))
              => kvBlob = JSONStringify(scans, nextId)
        /\ ("api" \in Running /\ Succeeded(retApi))
              => apiBlob = JSONStringify(webScans, apiNextId)

(***************************************************************************)
(* C3: no partial writes.  After every add, either the call returned an id *)
(* and the record is in memory and in the persisted blob, or the call      *)
(* failed and nothing of it is left: no new record in memory, the blob and *)
(* the counter as before.                                                  *)
(***************************************************************************)
C3_NoPartialWrites ==
    [][call'.op = "add" =>
          /\ "web" \in Running =>
                \/ /\ retWeb'.kind = "id"
                   /\ HasId(scans', retWeb'.id)
                   /\ kvBlob'.json /\ HasId(kvBlob'.scans, retWeb'.id)
                \/ /\ retWeb'.kind = "throw"
                   /\ scans' = scans /\ nextId' = nextId /\ kvBlob' = kvBlob
          /\ "api" \in Running =>
                \/ /\ retApi'.kind = "id"
                   /\ HasId(webScans', retApi'.id)
                   /\ apiBlob'.json /\ HasId(apiBlob'.scans, retApi'.id)
                \/ /\ retApi'.kind = "throw"
                   /\ Records(webScans') \subseteq
                         Records(webScans) \cup BlobRecords(apiBlob)
                   /\ apiNextId' \in {apiNextId, ApiCurrentNextId(apiNextId, apiBlob)}
                   /\ apiBlob' = apiBlob
          /\ "mobile" \in Running =>
                \/ retMobile'.kind = "id" /\ HasId(rows', retMobile'.id)
                \/ retMobile'.kind = "throw" /\ rows' = rows /\ seqno' = seqno
      ]_vars

(***************************************************************************)
(* C4: after add returned an id, findById of that id gives a record whose  *)
(* qr_data, latitude, longitude, altitude, accuracy and timestamp are the  *)
(* input's, whose id is the returned id and whose created_at is not empty. *)
(***************************************************************************)
IsAdded(found, scanData, id) ==
    /\ found.kind = "record"
    /\ SameFields(found.rec, scanData)
    /\ found.rec.id = id
    /\ found.rec.created_at # ""

C4_AddThenFind ==
    call.op = "add" =>
        /\ ("web" \in Running /\ retWeb.kind = "id")
              => IsAdded(WebGetScanById(retWeb.id).ret, call.scanData, retWeb.id)
        /\ ("mobile" \in Running /\ retMobile.kind = "id")
              => IsAdded(MobileGetScanById(retMobile.id, 0).ret, call.scanData,
                         retMobile.id)
        /\ ("api" \in Running /\ retApi.kind = "id")
              => IsAdded(ApiGetScanById(retApi.id, 0).ret, call.scanData, retApi.id)

\* The relational backend stored the example scan, with its absent altitude.
C4_Witness ==
    /\ platform = "mobile" /\ call.op = "add" /\ call.scanData = Example
    /\ retMobile.kind = "id"
    /\ MobileGetScanById(retMobile.id, 0).ret.kind = "record"

(***************************************************************************)
(* C5: a listing holds every stored record exactly once, by timestamp      *)
(* descending, and records with equal timestamps in the order in which     *)
(* they were inserted.                                                     *)
(***************************************************************************)
Position(s, rec) == CHOOSE i \in 1..Len(s) : s[i] = rec

IsStableListing(list, stored) ==
    /\ Len(list) = Len(stored)
    /\ Records(list) = Records(stored)
    /\ \A i, j \in 1..Len(list) :
          i < j => /\ list[i].timestamp >= list[j].timestamp
                   /\ list[i].timestamp = list[j].timestamp
                         => Position(stored, list[i]) < Position(stored, list[j])

C5_ListingStableDescending ==
    call.op = "list" =>
        /\ ("web" \in Running /\ retWeb.kind = "list")
              => IsStableListing(retWeb.list, scans)
        /\ ("mobile" \in Running /\ retMobile.kind = "list")
              => IsStableListing(retMobile.list, rows)
        /\ ("api" \in Running /\ retApi.kind = "list")
              => IsStableListing(retApi.list, webScans)

(***************************************************************************)
(* C6: deleteScan of an id that is stored returns true, removes exactly    *)
(* that record and leaves every other record as it was, and findById of    *)
(* the id then finds nothing.  (A call the storage rejects, because it is  *)
(* not initialized or its I/O fails, is not a deletion.)                   *)
(***************************************************************************)
RemovesExactly(before, after, id) ==
    /\ Len(after) = Len(before) - 1
    /\ Find(after, id) = Null
    /\ \A other \in Ids \ {id} : Find(after, other) = Find(before, other)

C8_InitializeIdempotent ==
    [][(call'.op = "init" /\ call'.io = 0) =>
          /\ ("web" \in Running /\ webInited) => UNCHANGED webVars
          /\ ("mobile" \in Running /\ db /\ tableExists) => UNCHANGED mobileVars
      ]_vars

(***************************************************************************)
(* C9: the key-value and the relational storage answer every call alike:   *)
(* same success or failure, same id, same true/false, same found or not    *)
(* found, same listing order, also before initialize.  (Compared on calls  *)
(* whose I/O does not fail.)                                               *)
(***************************************************************************)
IdsOf(list) == [i \in 1..Len(list) |-> list[i].id]

Observed(ret) ==
    CASE ret.kind = "id" -> <<"id", ret.id>>
      [] ret.kind = "bool" -> <<"bool", ret.ok>>
      [] ret.kind = "record" -> <<"record", ret.rec.id>>
      [] ret.kind = "list" -> <<"list", IdsOf(ret.list)>>
      [] OTHER -> <<ret.kind>>

C9_BackendsEquivalent ==
    (/\ platform = "pair"
     /\ call.op \in {"init", "list", "add", "find", "delete"}
     /\ call.io = 0)
        => Observed(retWeb) = Observed(retMobile)

(***************************************************************************)
(* C10: add fails, returns no id and stores nothing whenever the storage   *)
(* has not been initialized or the write cannot be committed.              *)
(***************************************************************************)
C10_AddFailsWhenUnavailable ==
    [][call'.op = "add" =>
          /\ ("web" \in Running /\ (~webInited \/ call'.io = 1))
                => /\ retWeb'.kind = "throw"
                   /\ scans' = scans /\ kvBlob' = kvBlob
          /\ ("mobile" \in Running /\ (~db \/ call'.io = 1))
                => /\ retMobile'.kind = "throw"
                   /\ rows' = rows
      ]_vars

(***************************************************************************)
(* C11: initialize fails whenever the backend cannot be opened or its      *)
(* persisted state cannot be loaded; it never reports success then.        *)
(***************************************************************************)
C11_InitializeFailsWhenUnavailable ==
    [][call'.op = "init" =>
          /\ ("web" \in Running /\ call'.io = 1) => retWeb'.kind = "throw"
          /\ ("mobile" \in Running /\ ~db /\ call'.io \in {1, 2})
                => retMobile'.kind = "throw"
          /\ ("api" \in Running /\ call'.io = 1) => retApi'.kind = "throw"
      ]_vars

(***************************************************************************)
(* C12: add validates its input.  A call whose qr_data or timestamp is     *)
(* absent is rejected, stores no record and consumes no id, so every       *)
(* stored record has both.                                                 *)
(***************************************************************************)
IsComplete(rec) == "qr_data" \in DOMAIN rec /\ "timestamp" \in DOMAIN rec

AllComplete(s) == \A i \in 1..Len(s) : IsComplete(s[i])

C12_AddValidatesInput ==
    [][(call'.op = "add" /\ ~IsComplete(call'.scanData)) =>
          /\ "web" \in Running =>
                /\ retWeb'.kind = "throw"
                /\ scans' = scans /\ nextId' = nextId /\ AllComplete(scans')
          /\ "mobile" \in Running =>
                /\ retMobile'.kind = "throw"
                /\ rows' = rows /\ seqno' = seqno
          /\ "api" \in Running =>
                /\ retApi'.kind = "throw"
                /\ AllComplete(webScans')
      ]_vars

(***************************************************************************)
(* C13 as stated: listAll on a store with no records returns an empty      *)
(* sequence and never a failure, on every backend and whatever calls (also *)
(* none) came before.                                                      *)
(***************************************************************************)
C13_EmptyListingNeverFails ==
    call.op = "list" =>
        /\ ("web" \in Running /\ scans = <<>>) => retWeb = RetList(<<>>)
        /\ ("mobile" \in Running /\ rows = <<>>) => retMobile = RetList(<<>>)
        /\ ("api" \in Running /\ webScans = <<>>) => retApi = RetList(<<>>)

(***************************************************************************)
(* C13 amended: listAll on a store with no records returns an empty        *)
(* sequence, not a failure, once initialize has succeeded and unless the   *)
(* I/O of the call itself fails; WebStorage, which does no I/O to list,    *)
(* does so always.                                                         *)
(***************************************************************************)
C13_EmptyListingOnceInitialized ==
    call.op = "list" =>
        /\ ("web" \in Running /\ scans = <<>>) => retWeb = RetList(<<>>)
        /\ ("mobile" \in Running /\ rows = <<>> /\ db /\ tableExists
              /\ call.io # 1)
              => retMobile = RetList(<<>>)
        /\ ("api" \in Running /\ webScans = <<>> /\ call.io # 1)
              => retApi = RetList(<<>>)

\* The relational store lists nothing after its only record was deleted.
C13_Witness ==
    /\ platform = "mobile" /\ call.op = "list"
    /\ retMobile = RetList(<<>>) /\ seqno > 0

(***************************************************************************)
(* C14: on a new, empty backend the first add returns id 1; listAll then   *)
(* returns exactly one record, with that id and with created_at set;       *)
(* deleteById(1) then returns true; and listAll then returns the empty     *)
(* sequence.                                                               *)
(***************************************************************************)
Answers ==
    {r \in {retWeb, retMobile, retApi} :
        \/ "web" \in Running /\ r = retWeb
        \/ "mobile" \in Running /\ r = retMobile
        \/ "api" \in Running /\ r = retApi}

IsOneRecordWithId(ret, id) ==
    /\ ret.kind = "list"
    /\ Len(ret.list) = 1
    /\ ret.list[1].id = id
    /\ "created_at" \in DOMAIN ret.list[1]
    /\ ret.list[1].created_at \in {ToISOString(now) : now \in Clock}
                                 \cup {CurrentTimestamp(now) : now \in Clock}

C14_Scenario ==
    \A ret \in Answers :
        /\ scenario = "added" => ret = RetId(1)
        /\ scenario = "listed" => IsOneRecordWithId(ret, 1)
        /\ scenario = "deleted" => ret = RetBool(TRUE)
        /\ scenario = "relisted" => ret = RetList(<<>>)

C14_Witness == scenario = "relisted" /\ call.op = "list"

(***************************************************************************)
(* C15: in the remote variant deleteById returns true, and raises no       *)
(* failure, when the endpoint answers "not found" (the record was already  *)
(* removed), as it does when the endpoint answers with "no content" or     *)
(* with any other status of success.                                       *)
(***************************************************************************)
Answered(op) ==
    platform = "remote" /\ call.op = op /\ response.kind = "response"

C15_RemoteDeleteOfMissingSucceeds ==
    (Answered("delete") /\ (Ok(response) \/ response.status = 404))
        => retRemote = RetBool(TRUE)

(***************************************************************************)
(* C16: in the remote variant list, create, delete and find raise a        *)
(* failure, and return no normal result, when the request fails in         *)
(* transport or the endpoint answers with a status that is not a success;  *)
(* except that findById answers "not found" with null, never a failure.    *)
(***************************************************************************)
IsRemoteCall == platform = "remote" /\ call.op \in {"list", "add", "delete", "find"}

IsNotFound == response.kind = "response" /\ response.status = 404

C16_RemoteFailuresPropagate ==
    IsRemoteCall =>
        /\ response.kind = "error" => retRemote.kind = "throw"
        /\ (response.kind = "response" /\ ~Ok(response)
              /\ ~(call.op = "find" /\ IsNotFound))
              => retRemote.kind = "throw"
        /\ (call.op = "find" /\ IsNotFound) => retRemote = Null

C16_Witness ==
    /\ Answered("find") /\ IsNotFound /\ retRemote = Null

(***************************************************************************)
(* C17: a record is immutable from its creation to its deletion.  For      *)
(* every stored id, findById (and so listAll) answers the same record,     *)
(* created_at included, after any later add, deleteById of another id,     *)
(* listAll, findById or initialize; and the created_at of a record that an *)
(* add created is the storage's own time stamp.  Stated for calls whose    *)
(* own I/O does not fail.                                                  *)
(***************************************************************************)
KeepsRecord(before, after, id) ==
    Find(before, id) # Null => Find(after, id) = Find(before, id)

StampedByStorage(stored, ret) ==
    ret.kind = "id" =>
        /\ Find(stored, ret.id) # Null
        /\ Find(stored, ret.id).rec.created_at
              \in {ToISOString(now) : now \in Clock}
                    \cup {CurrentTimestamp(now) : now \in Clock}

C17_RecordsImmutable ==
    [][(call'.op \in {"init", "add", "list", "find", "delete"} /\ call'.io = 0) =>
          /\ \A id \in Ids :
                (call'.op = "delete" => call'.id # id) =>
                    /\ "web" \in Running => KeepsRecord(scans, scans', id)
                    /\ "mobile" \in Running => KeepsRecord(rows, rows', id)
                    /\ "api" \in Running =>
                          KeepsRecord(ApiCurrentScans(webScans, apiBlob),
                                      ApiCurrentScans(webScans', apiBlob'), id)
          /\ call'.op = "add" =>
                /\ "web" \in Running => StampedByStorage(scans', retWeb')
                /\ "mobile" \in Running => StampedByStorage(rows', retMobile')
                /\ "api" \in Running =>
                      StampedByStorage(ApiCurrentScans(webScans', apiBlob'), retApi')
      ]_vars

(***************************************************************************)
(* C18: in the key-value backends the persisted blob mirrors the memory.   *)
(* When a mutation (an add, or a deleteById that removed a record) has     *)
(* returned, the stored blob is {scans: the record sequence in memory,     *)
(* nextId: the counter in memory}.                                         *)
(***************************************************************************)
C18_BlobMirrorsMemory ==
    [][(call'.op \in {"add", "delete"}) =>
          /\ ("web" \in Running /\ Succeeded(retWeb'))
                => kvBlob' = JSONStringify(scans', nextId')
          /\ ("api" \in Running /\ Succeeded(retApi'))
                => apiBlob' = JSONStringify(webScans', apiNextId')
      ]_vars

(***************************************************************************)
(* C19: no two storage calls run their critical sections at the same time  *)
(* in one process.  Across the scanner screen and the history screen a     *)
(* storage call (init, getScans, addScan, deleteScan) starts only when     *)
(* every storage call started before it has ended.                         *)
(***************************************************************************)
C19_OneStorageCallAtATime == Cardinality(inFlight) <= 1

(***************************************************************************)
(* C20: in the history screen a delete whose storage call raises, or       *)
(* answers false, leaves the displayed list as it was and shows an error   *)
(* message; the handler takes a record off the displayed list only when    *)
(* deleteScan has answered true, and then it takes off exactly the record  *)
(* with that id.                                                           *)
(***************************************************************************)
LastAnswer == IF platform = "web" THEN retWeb ELSE retMobile

\* The step in which deleteScan starts and stays in flight, and the step in
\* which it ends and the handler runs to its end.
DeleteSuspends ==
    pc["handleDeleteScan"].at = "idle" /\ pc'["handleDeleteScan"].at = "await"

DeleteEnds ==
    /\ call'.op = "delete"
    /\ pc'["handleDeleteScan"].at = "idle"
    /\ pc["handleDeleteScan"].at = "await" \/ pc' = pc

C20_DeleteUpdatesDisplayOnSuccessOnly ==
    [][/\ DeleteSuspends => displayed' = displayed
       /\ DeleteEnds =>
            IF Answer = RetBool(TRUE)
            THEN /\ RemovesExactly(displayed, displayed', call'.id)
                 /\ ~HasId(displayed', call'.id)
            ELSE /\ displayed' = displayed
                 /\ alert' = "Error"
      ]_vars

\* deleteScan answered false for a displayed scan: it is still displayed.
C20_Witness ==
    /\ call.op = "delete"
    /\ pc["handleDeleteScan"].at = "idle"
    /\ LastAnswer = RetBool(FALSE)
    /\ alert = "Error"
    /\ HasId(displayed, call.id)

(***************************************************************************)
(* C21: in the key-value backends, when initialize has loaded a persisted  *)
(* blob (also one whose nextId is missing or zero while its scans are not  *)
(* empty) or has fallen back to the defaults, the next-id counter is       *)
(* greater than the id of every record held; so an add never returns the   *)
(* id of a record that is held, and no two records held share an id.       *)
(***************************************************************************)
CounterAbove(s, n) == \A i \in 1..Len(s) : s[i].id < n

DistinctIds(s) == \A i, j \in 1..Len(s) : i # j => s[i].id # s[j].id

C21_CounterAboveLoadedIds ==
    [][/\ call'.op = "init" =>
            /\ ("web" \in Running /\ retWeb'.kind # "throw")
                  => CounterAbove(scans', nextId')
            /\ ("api" \in Running /\ retApi'.kind # "throw")
                  => CounterAbove(webScans', apiNextId')
       /\ call'.op = "add" =>
            /\ ("web" \in Running /\ retWeb'.kind = "id") =>
                  /\ ~HasId(scans, retWeb'.id)
                  /\ DistinctIds(scans')
            /\ ("api" \in Running /\ retApi'.kind = "id") =>
                  /\ ~HasId(ApiCurrentScans(webScans, apiBlob), retApi'.id)
                  /\ DistinctIds(webScans')
      ]_vars

(***************************************************************************)
(* C22: in the relational backend, when initialize calls overlap, no       *)
(* SELECT, INSERT or DELETE on the scans table is issued before the        *)
(* CREATE TABLE IF NOT EXISTS statement has completed: no statement on the *)
(* table is in flight while the CREATE TABLE of an init() is.              *)
(***************************************************************************)
InFlightOp(h) == Program(h)[pc[h].step]

C22_NoStatementBeforeTableCreated ==
    platform = "mobile" =>
        \A h, g \in inFlight :
            ~(InFlightOp(h) = "init" /\ InFlightOp(g) # "init")

(***************************************************************************)
(* C23: the scanner screen processes at most one scan at a time.  From the *)
(* moment a detection starts being handled until scanning is enabled       *)
(* again, a further detection (also one delivered before the screen has    *)
(* rendered with isScanning = false) is ignored, so no second call of the  *)
(* handler runs and adds a record.                                         *)
(***************************************************************************)
C23_OneScanAtATime == Len(scanTasks) <= 1

(***************************************************************************)
(* C24: in the scanner screen scanning is always enabled again after a     *)
(* handled detection.  After a scan that was saved and counted, isScanning *)
(* becomes true when the 3 second timer fires; when saving the scan or     *)
(* reloading the count fails, it is set back to true at once.  isScanning  *)
(* never stays false forever, given that awaited calls settle and timers   *)
(* fire.                                                                   *)
(***************************************************************************)
C24_ScanningEnabledAgain == (~isScanning) ~> isScanning

\* A scan failed in the storage and scanning is enabled again.
C24_Witness ==
    /\ call.op \in {"add", "list"}
    /\ Len(scanTasks) = 0 /\ timers = 0
    /\ alert = "Error"
    /\ isScanning

(***************************************************************************)
(* C25: restart round trip of the key-value backends.  When the process    *)
(* ends after an add or a deleteById that succeeded, a new instance that   *)
(* runs initialize on the persisted blob holds the same records, in the    *)
(* same order, and the same next-id counter as the instance that wrote the *)
(* blob.                                                                   *)
(***************************************************************************)
\* The fields of a new instance after an init() that found this blob.
FreshLoad(blob) ==
    IF blob.json THEN <<ParsedScans(blob), ParsedNextId(blob)>> ELSE <<<<>>, 1>>

C25_RestartRoundTrip ==
    [][(call'.op = "restart" /\ call.op \in {"add", "delete"}) =>
          /\ ("web" \in Running /\ Succeeded(retWeb))
                => FreshLoad(kvBlob') = <<scans, nextId>>
          /\ ("api" \in Running /\ Succeeded(retApi))
                => FreshLoad(apiBlob') = <<webScans, apiNextId>>
      ]_vars

====
